---- MODULE Spec2Model ----
(***************************************************************************)
(* Model of dfgls() in src/dfgls.py: the DFGLS unit-root test pipeline.    *)
(* One behaviour is one call of dfgls(x, regression, maxlag, autolag):     *)
(* validation, GLS quasi-differencing, the auxiliary OLS regression, the   *)
(* demeaning/detrending of the original series, the ADF tau test and the   *)
(* 'ct' correction of the p-value and critical values.                     *)
(*                                                                         *)
(* Real numbers are exact rationals <<num, den>> in lowest terms with      *)
(* den > 0, so that two equal values are equal tuples.  The values of the  *)
(* MacKinnon regression surfaces are symbolic terms that record which      *)
(* surface was evaluated and with which arguments.                         *)
(***************************************************************************)
EXTENDS Integers, Sequences, FiniteSets, TLC

VARIABLES pc, err, regression, maxlag, autolag, shape, x0, heap, n, alpha,
          exog, arc, adf, ret, calls

vars == <<pc, err, regression, maxlag, autolag, shape, x0, heap, n, alpha,
          exog, arc, adf, ret, calls>>

----------------------------------------------------------------------------
(* Bounds of the model.                                                    *)

\* longest series buffer the caller passes
MaxN == 15
\* largest level (first value) of a generated series
MaxLevel == 1
\* largest slope of a generated series
MaxSlope == 1
\* largest maxlag the caller passes
MaxLagArg == 2
\* OLS coefficients are drawn from 0..MaxCoef
MaxCoef == 1

\* Python's None
None == "None"

----------------------------------------------------------------------------
(* Exact rational arithmetic.                                              *)

Abs(a) == IF a < 0 THEN -a ELSE a

RECURSIVE GCD(_, _)
GCD(a, b) == IF b = 0 THEN a ELSE GCD(b, a % b)

\* the rational num/den (den # 0) in lowest terms, den > 0
Q(num, den) ==
    LET s == IF den < 0 THEN -1 ELSE 1
        g == GCD(Abs(num), Abs(den))
    IN  <<(s * num) \div g, (s * den) \div g>>

QInt(i) == <<i, 1>>
QSub(a, b) == Q(a[1] * b[2] - b[1] * a[2], a[2] * b[2])
QMul(a, b) == Q(a[1] * b[1], a[2] * b[2])
QDiv(a, b) == Q(a[1] * b[2], a[2] * b[1])

----------------------------------------------------------------------------
(* The caller's inputs.                                                    *)

\* a series of length len: level lvl at the first observation, then slope
Series(len, lvl, slope) == [i \in 1..len |-> QInt(lvl + slope * (i - 1))]

Product(s) == IF Len(s) = 0 THEN 1
              ELSE IF Len(s) = 1 THEN s[1]
              ELSE IF Len(s) = 2 THEN s[1] * s[2]
              ELSE s[1] * s[2] * s[3]

\* the shapes an array holding len values can have: 0-d (one value), 1-d,
\* a single column, two columns, a single row, 3-d
Shapes(len) ==
    {<<len>>, <<len, 1>>, <<1, len>>, <<len, 1, 1>>}
    \cup (IF len = 1 THEN {<< >>} ELSE {})
    \cup (IF len % 2 = 0 THEN {<<len \div 2, 2>>} ELSE {})

Regressions == {"c", "ct", "nc"}
\* an optional value is << >> (None) or <<v>>
MaxLags == {<< >>} \cup {<<m>> : m \in 0..MaxLagArg}
Autolags == {"AIC", "BIC", "t-stat", None}

Buffers == {"caller", "endog", "dtx"}

Init ==
    /\ pc = "start"
    /\ err = None
    /\ regression \in Regressions
    /\ maxlag \in MaxLags
    /\ autolag \in Autolags
    /\ \E len \in 1..MaxN, lvl \in 0..MaxLevel, slope \in 0..MaxSlope :
          /\ x0 = Series(len, lvl, slope)
          /\ shape \in Shapes(len)
    /\ heap = [b \in Buffers |-> IF b = "caller" THEN x0 ELSE << >>]
    /\ n = 0
    /\ alpha = << >>
    /\ exog = << >>
    /\ arc = << >>
    /\ adf = << >>
    /\ ret = << >>
    /\ calls = << >>

----------------------------------------------------------------------------
(* Input validation, lines 99-106.                                         *)

RegressionInvalid(r) == r \notin {"c", "ct"}

\* the shape test without its x.ndim > 2 part
ShapeInvalidNo3d(s) == Len(s) = 2 /\ s[2] # 1

ShapeInvalid(s) == Len(s) > 2 \/ (Len(s) = 2 /\ s[2] # 1)

\* x = np.reshape(x, (-1, 1)): the number of rows of the column
Reshape(s) == Product(s)

Validate ==
    /\ pc = "start"
    /\ IF RegressionInvalid(regression)
         THEN /\ pc' = "failed"
              /\ err' = "ValueError:regression"
              /\ n' = n
       ELSE IF ShapeInvalid(shape)
         THEN /\ pc' = "failed"
              /\ err' = "ValueError:shape"
              /\ n' = n
       ELSE /\ pc' = "validated"
            /\ err' = err
            /\ n' = Reshape(shape)
    /\ UNCHANGED <<regression, maxlag, autolag, shape, x0, heap, alpha, exog,
                   arc, adf, ret, calls>>

----------------------------------------------------------------------------
(* GLS detrender: alpha, endog and exog, lines 107-122.                    *)

\* the two constants exchanged
AlphaSwapped(r, len) ==
    IF r = "c" THEN QSub(QInt(1), QDiv(Q(27, 2), QInt(len)))
    ELSE QSub(QInt(1), QDiv(QInt(7), QInt(len)))

\* alpha = 1 - 7/n for 'c', 1 - 13.5/n for 'ct'
Alpha(r, len) ==
    IF r = "c" THEN QSub(QInt(1), QDiv(QInt(7), QInt(len)))
    ELSE QSub(QInt(1), QDiv(Q(27, 2), QInt(len)))

\* an assignment without np.copy: the result is the argument's buffer
NpCopyAlias(src, fresh) == src

\* the buffer np.copy returns: a fresh one, never the argument's
NpCopy(src, fresh) == fresh

RECURSIVE QuasiDiffPrefix(_, _, _)
QuasiDiffPrefix(a, v, k) ==
    IF k = 1 THEN <<v[1]>>
    ELSE LET p == QuasiDiffPrefix(a, v, k - 1)
         IN  Append(p, QSub(v[k], QMul(a, p[k - 1])))

\* an element-by-element loop that reads the entries it already rewrote
QuasiDiffSequential(a, v) == QuasiDiffPrefix(a, v, Len(v))

\* v[1:] -= a * v[:-1]: numpy evaluates the right-hand side into a
\* temporary before it subtracts in place
QuasiDiff(a, v) ==
    LET tmp == [i \in 1..(Len(v) - 1) |-> QMul(a, v[i])]
    IN  [i \in 1..Len(v) |-> IF i = 1 THEN v[1] ELSE QSub(v[i], tmp[i - 1])]

\* np.ones(n) with exog[1:, 0] -= alpha
ExogCol0(a, len) ==
    [i \in 1..len |-> IF i = 1 THEN QInt(1) ELSE QSub(QInt(1), a)]

\* np.ones(n) with exog[1:, 1] = np.arange(2, n + 1), then
\* exog[1:, 1] -= alpha * exog[:-1, 1]
ExogCol1(a, len) == QuasiDiff(a, [i \in 1..len |-> QInt(i)])

\* the columns of exog
Exog(r, a, len) ==
    IF r = "c" THEN <<ExogCol0(a, len)>>
    ELSE <<ExogCol0(a, len), ExogCol1(a, len)>>

\* the buffer endog lives in
EndogBuf == NpCopy("caller", "endog")

Detrend ==
    /\ pc = "validated"
    /\ pc' = "built"
    /\ alpha' = Alpha(regression, n)
    /\ heap' = [heap EXCEPT ![EndogBuf] = QuasiDiff(alpha', heap["caller"])]
    /\ exog' = Exog(regression, alpha', n)
    /\ UNCHANGED <<err, regression, maxlag, autolag, shape, x0, n, arc, adf,
                   ret, calls>>

----------------------------------------------------------------------------
(* Auxiliary regression, line 124.                                         *)

Call(fn, args) == [fn |-> fn, args |-> args]

Coefs == {QInt(c) : c \in 0..MaxCoef}

\* exog has fewer rows than columns
RankDeficient(ex) == Len(ex[1]) < Len(ex)

\* OLS(endog, exog).fit().params
FitOLS ==
    /\ pc = "built"
    /\ pc' = "fitted"
    /\ arc' \in [1..Len(exog) -> Coefs]
    /\ calls' = Append(calls, Call("OLS", <<heap[EndogBuf], exog>>))
    /\ UNCHANGED <<err, regression, maxlag, autolag, shape, x0, heap, n,
                   alpha, exog, adf, ret>>

\* a rank-deficient design may make the solve fail; the error propagates
FitOLSFails ==
    /\ pc = "built"
    /\ RankDeficient(exog)
    /\ pc' = "failed"
    /\ err' = "OLS:SingularDesign"
    /\ calls' = Append(calls, Call("OLS", <<heap[EndogBuf], exog>>))
    /\ UNCHANGED <<regression, maxlag, autolag, shape, x0, heap, n, alpha,
                   exog, arc, adf, ret>>

----------------------------------------------------------------------------
(* Series adjuster, lines 125-129.                                         *)

\* np.arange(1, n + 1) at the (1-based) position i
TimeIndex(i) == i

\* the quasi-differenced endog instead of x
AdjustSourceEndog == EndogBuf

\* the buffer the adjuster reads: x, a view of the caller's array
AdjustSource == "caller"

\* np.copy(x.reshape(n,)) - arc[0], then dtx -= arc[1] * np.arange(1, n + 1)
Adjusted(x, coef, r) ==
    [i \in 1..Len(x) |->
        IF r = "ct"
        THEN QSub(QSub(x[i], coef[1]), QMul(coef[2], QInt(TimeIndex(i))))
        ELSE QSub(x[i], coef[1])]

Adjust ==
    /\ pc = "fitted"
    /\ pc' = "adjusted"
    /\ heap' = [heap EXCEPT !["dtx"] = Adjusted(heap[AdjustSource], arc, regression)]
    /\ UNCHANGED <<err, regression, maxlag, autolag, shape, x0, n, alpha,
                   exog, arc, adf, ret, calls>>

----------------------------------------------------------------------------
(* MacKinnon regression surfaces (symbolic) and the ADF collaborator.      *)

MackinnonP(stat, reg, N) == <<"mackinnonp", stat, reg, N>>

MackinnonCrit(N, reg, nobs) ==
    [i \in 1..3 |-> <<"mackinnoncrit", N, reg, nobs, i>>]

Labels == {"1%", "5%", "10%"}

\* {"1%": cvs[0], "5%": cvs[1], "10%": cvs[2]}
CvDict(cvs) ==
    [k \in Labels |-> IF k = "1%" THEN cvs[1]
                      ELSE IF k = "5%" THEN cvs[2] ELSE cvs[3]]

StatVals == {-3, 1}
IcVals == {-7}

\* the tuple adfuller returns: icbest only with an autolag criterion
ADFResult(stat, used, reg, len, al, ic) ==
    LET nobs == len - 1 - used
        base == <<stat, MackinnonP(stat, reg, 1), used, nobs,
                  CvDict(MackinnonCrit(1, reg, nobs))>>
    IN  IF al = None THEN base ELSE Append(base, ic)

\* the regression option dfgls hands to adfuller
ADFRegression == "nc"

\* maxlag left at adfuller's default instead of the caller's value
ADFMaxLagDefault(ml) == << >>

\* the maxlag option dfgls hands to adfuller
ADFMaxLag(ml) == ml

\* the largest lags adfuller may try: maxlag, or its own default
LagCeilings(ml) == IF ml = << >> THEN 0..MaxLagArg ELSE {ml[1]}

\* a lag order leaves at least one observation
Feasible(len, m) == len >= m + 2

\* adfuller(dtx, regression='nc', maxlag=maxlag, autolag=autolag)
RunADF ==
    /\ pc = "adjusted"
    /\ \E m \in LagCeilings(ADFMaxLag(maxlag)), stat \in StatVals, ic \in IcVals :
          /\ Feasible(Len(heap["dtx"]), m)
          /\ \E used \in 0..m :
                /\ autolag = None => used = m
                /\ adf' = ADFResult(stat, used, ADFRegression,
                                    Len(heap["dtx"]), autolag, ic)
    /\ pc' = "tested"
    /\ calls' = Append(calls, Call("adfuller",
                   <<heap["dtx"], ADFRegression, ADFMaxLag(maxlag), autolag>>))
    /\ UNCHANGED <<err, regression, maxlag, autolag, shape, x0, heap, n,
                   alpha, exog, arc, ret>>

\* the series is too short for every lag order adfuller may try
RunADFFails ==
    /\ pc = "adjusted"
    /\ \A m \in LagCeilings(ADFMaxLag(maxlag)) : ~Feasible(Len(heap["dtx"]), m)
    /\ pc' = "failed"
    /\ err' = "adfuller:ValueError"
    /\ calls' = Append(calls, Call("adfuller",
                   <<heap["dtx"], ADFRegression, ADFMaxLag(maxlag), autolag>>))
    /\ UNCHANGED <<regression, maxlag, autolag, shape, x0, heap, n, alpha,
                   exog, arc, adf, ret>>

----------------------------------------------------------------------------
(* Correction of the p-value and critical values for 'ct', lines 133-138.  *)

\* the names the module binds: its imports and its own functions
ModuleGlobals ==
    {"sys", "os", "time", "np", "pd", "OLS", "adfuller", "assert_equal",
     "assert_almost_equal", "dfgls", "_print_res", "main"}

\* the correction applied whatever the regression type
NeedsCorrectionAlways(r) == TRUE

NeedsCorrection(r) == r = "ct"

\* cvs = mackinnoncrit(N=1, regression='c', nobs=len(dtx))
\* res = [res[0], mackinnonp(res[0], regression='c', N=1), res[2], res[3],
\*        {"1%": cvs[0], "5%": cvs[1], "10%": cvs[2]}]
TrendCorrect(res, dtxlen) ==
    <<res[1], MackinnonP(res[1], "c", 1), res[3], res[4],
      CvDict(MackinnonCrit(1, "c", dtxlen))>>

Correct ==
    /\ pc = "tested"
    /\ IF ~NeedsCorrection(regression)
         THEN /\ pc' = "done"
              /\ ret' = adf
              /\ UNCHANGED <<err, calls>>
       ELSE IF "mackinnoncrit" \notin ModuleGlobals
         THEN /\ pc' = "failed"
              /\ err' = "NameError:mackinnoncrit"
              /\ UNCHANGED <<ret, calls>>
       ELSE IF "mackinnonp" \notin ModuleGlobals
         THEN /\ pc' = "failed"
              /\ err' = "NameError:mackinnonp"
              /\ calls' = Append(calls, Call("mackinnoncrit",
                                             <<1, "c", Len(heap["dtx"])>>))
              /\ UNCHANGED ret
       ELSE /\ pc' = "done"
            /\ ret' = TrendCorrect(adf, Len(heap["dtx"]))
            /\ calls' = calls \o
                  <<Call("mackinnoncrit", <<1, "c", Len(heap["dtx"])>>),
                    Call("mackinnonp", <<adf[1], "c", 1>>)>>
            /\ UNCHANGED err
    /\ UNCHANGED <<regression, maxlag, autolag, shape, x0, heap, n, alpha,
                   exog, arc, adf>>

----------------------------------------------------------------------------

Next ==
    \/ Validate
    \/ Detrend
    \/ FitOLS
    \/ FitOLSFails
    \/ Adjust
    \/ RunADF
    \/ RunADFFails
    \/ Correct

Spec == Init /\ [][Next]_vars

----------------------------------------------------------------------------
(* Properties.                                                             *)

Finished == pc \in {"done", "failed"}

ValueErrors == {"ValueError:regression", "ValueError:shape"}

CollaboratorErrors == {"OLS:SingularDesign", "adfuller:ValueError"}

MackinnonCalls == {"mackinnoncrit", "mackinnonp"}

BadRegression == regression \notin {"c", "ct"}

BadShape == Len(shape) > 2 \/ (Len(shape) = 2 /\ shape[2] > 1)

FlatShape == Len(shape) = 1 \/ (Len(shape) = 2 /\ shape[2] = 1)

\* C1: a 'ct' call in which the ADF collaborator returned ends by returning
\* a p-value and critical values that are the MacKinnon surfaces for N = 1,
\* regression 'c', evaluated at the ADF statistic and at nobs = the ADF
\* collaborator's number of observations used.
C1_TrendSurfaceAtObservationsUsed ==
    (Finished /\ regression = "ct" /\ adf # << >>) =>
        /\ pc = "done"
        /\ ret[1] = adf[1]
        /\ ret[2] = MackinnonP(adf[1], "c", 1)
        /\ ret[5] = CvDict(MackinnonCrit(1, "c", adf[4]))

\* C2: a 'ct' call in which the ADF collaborator returned ends by returning
\* the collaborator's lags, observations used and, when the collaborator
\* produced one, its best information criterion.
C2_TrendPassThrough ==
    (Finished /\ regression = "ct" /\ adf # << >>) =>
        /\ pc = "done"
        /\ ret[3] = adf[3]
        /\ ret[4] = adf[4]
        /\ Len(adf) = 6 => (Len(ret) = 6 /\ ret[6] = adf[6])

\* C3: a call fails only with the validator's error or with a collaborator's
\* error, and a returned record holds the five fields with critical values
\* labelled exactly 1%, 5% and 10%.
C3_OnlyInvalidArgument ==
    /\ pc = "failed" => err \in ValueErrors \cup CollaboratorErrors
    /\ pc = "done" => (Len(ret) >= 5 /\ DOMAIN ret[5] = Labels)

\* C4: once validation has run, a bad regression option or a series with
\* more than two dimensions, or two dimensions and more than one column, has
\* failed the call with the validator's error before any computation (no
\* collaborator call, no alpha, no endog, no result); a 1-d or single-column
\* series with a valid option has passed, with n the number of observations.
C4_ValidationFirst ==
    pc # "start" =>
        /\ (BadRegression \/ BadShape) =>
              /\ pc = "failed"
              /\ err \in ValueErrors
              /\ calls = << >>
              /\ ret = << >>
              /\ alpha = << >>
              /\ heap["endog"] = << >>
              /\ heap["dtx"] = << >>
        /\ (~BadRegression /\ FlatShape) =>
              /\ err \notin ValueErrors
              /\ n = Len(x0)

C4_Witness ==
    /\ pc = "failed"
    /\ regression = "ct"
    /\ Len(shape) = 3
    /\ err = "ValueError:shape"

\* C5: the caller's buffer holds the values it held before the call, in
\* every state of the call, returned or failed.
C5_NonMutation == heap["caller"] = x0

C5_Witness ==
    /\ pc = "done"
    /\ heap["endog"] # << >>
    /\ heap["endog"] # x0
    /\ heap["dtx"] # x0

\* C6: a 'c' call in which the ADF collaborator returned ends by returning
\* exactly the collaborator's tuple, and calls no MacKinnon surface.
C6_ConstantOnlyPassThrough ==
    (Finished /\ regression = "c" /\ adf # << >>) =>
        /\ pc = "done"
        /\ ret = adf
        /\ \A k \in DOMAIN calls : calls[k].fn \notin MackinnonCalls

C6_Witness ==
    /\ pc = "done"
    /\ regression = "c"
    /\ Len(ret) = 6
    /\ ret[3] > 0

\* C7: alpha is 1 - 7/n for 'c' and 1 - 13.5/n for 'ct', n the length of
\* the series; it lies strictly between 0 and 1 when n > 13.5; and the call
\* is never rejected for its length: the validator's error arises from a bad
\* option or shape only.
C7_Alpha ==
    /\ alpha # << >> =>
          /\ alpha[2] > 0
          /\ regression = "c" =>
                alpha[1] * Len(x0) = (Len(x0) - 7) * alpha[2]
          /\ regression = "ct" =>
                2 * alpha[1] * Len(x0) = (2 * Len(x0) - 27) * alpha[2]
          /\ 2 * Len(x0) > 27 => (0 < alpha[1] /\ alpha[1] < alpha[2])
    /\ (pc # "start" /\ ~BadRegression /\ ~BadShape) =>
          (err \notin ValueErrors /\ (pc # "validated" => alpha # << >>))

C7_Witness ==
    /\ pc = "done"
    /\ regression = "c"
    /\ Len(x0) < 7
    /\ alpha[1] < 0

\* C8: endog[0] is series[0] and endog[i] is series[i] - alpha*series[i-1]
\* with the original series[i-1]; exog column 0 is 1 then 1 - alpha; for
\* 'ct' exog column 1 is 1 then (i+1) - alpha*i (i counted from 0).
C8_DetrenderInputs ==
    alpha # << >> =>
        LET e == heap["endog"]
            len == Len(x0)
            an == alpha[1]
            ad == alpha[2]
        IN  /\ Len(e) = len
            /\ e[1] = x0[1]
            /\ \A i \in 2..len :
                  /\ e[i][2] > 0
                  /\ e[i][1] * ad = e[i][2] * (x0[i][1] * ad - an * x0[i - 1][1])
            /\ Len(exog) = (IF regression = "ct" THEN 2 ELSE 1)
            /\ \A c \in DOMAIN exog : Len(exog[c]) = len /\ exog[c][1] = <<1, 1>>
            /\ \A i \in 2..len :
                  /\ exog[1][i][2] > 0
                  /\ exog[1][i][1] * ad = exog[1][i][2] * (ad - an)
            /\ regression = "ct" =>
                  \A i \in 2..len :
                      /\ exog[2][i][2] > 0
                      /\ exog[2][i][1] * ad =
                            exog[2][i][2] * (i * ad - an * (i - 1))

C8_Witness ==
    /\ pc = "built"
    /\ regression = "ct"
    /\ Len(x0) >= 3
    /\ x0[1][1] > 0
    /\ alpha[1] # 0
    /\ heap["endog"][3] # x0[3]

\* C9: the series handed to the ADF collaborator has the length of the
\* original series and is, at every position, the original value minus
\* arc[0], and for 'ct' also minus arc[1] times the 1-based time index.
C9_Adjusted ==
    /\ heap["dtx"] # << >> =>
          /\ Len(heap["dtx"]) = Len(x0)
          /\ \A i \in 1..Len(x0) :
                /\ heap["dtx"][i][2] = 1
                /\ heap["dtx"][i][1] =
                      x0[i][1] - arc[1][1]
                        - (IF regression = "ct" THEN arc[2][1] * i ELSE 0)
    /\ \A k \in DOMAIN calls :
          calls[k].fn = "adfuller" => calls[k].args[1] = heap["dtx"]

C9_Witness ==
    /\ pc = "tested"
    /\ regression = "ct"
    /\ arc[1][1] # 0
    /\ arc[2][1] # 0
    /\ heap["endog"] # x0
    /\ Len(x0) >= 3

\* C10: a call that returned called OLS first, on the detrender's endog and
\* exog, then adfuller once, on the adjusted series with regression 'nc' and
\* the caller's maxlag and autolag, then nothing but the MacKinnon surfaces
\* (for 'ct' only); with autolag None and maxlag m the lags returned are m.
C10_StageOrder ==
    pc = "done" =>
        /\ Len(calls) >= 2
        /\ calls[1].fn = "OLS"
        /\ calls[1].args = <<heap["endog"], exog>>
        /\ calls[2].fn = "adfuller"
        /\ calls[2].args = <<heap["dtx"], "nc", maxlag, autolag>>
        /\ \A k \in 3..Len(calls) :
              calls[k].fn \in MackinnonCalls /\ regression = "ct"
        /\ (autolag = None /\ maxlag # << >>) => ret[3] = maxlag[1]

C10_Witness ==
    /\ pc = "done"
    /\ autolag = None
    /\ maxlag = <<MaxLagArg>>
    /\ ret[3] = MaxLagArg
    /\ Len(ret) = 5

====
